---- MODULE Spec2Model ----
(***************************************************************************)
(* Model of the replikator reconcilers (internal/controller): the Secret   *)
(* and ConfigMap Reconcile functions, their namespace trigger, and the     *)
(* object store and work queue they run against.                           *)
(*                                                                         *)
(* Names (namespaces, payload keys), annotation values and glob patterns   *)
(* are sequences of one-character strings, so that strings.Split,          *)
(* strings.ToLower and filepath.Match are computed character by character. *)
(***************************************************************************)
EXTENDS Naturals, Sequences, FiniteSets, TLC

\* ------------------------------------------------------------------------
\* Program constants (secret_controller.go 47-60, corev1)
\* ------------------------------------------------------------------------
AnnotationEnabledKey == "v1alpha1.replikator.gpuninja.com/enabled"
AnnotationReplicateToKey == "v1alpha1.replikator.gpuninja.com/replicate-to"
AnnotationReplicateKeysKey == "v1alpha1.replikator.gpuninja.com/replicate-keys"
FinalizerName == "replikator.gpu-ninja.com/finalizer"
ManagedByLabel == "app.kubernetes.io/managed-by"
ManagedByValue == "replikator"
SecretTypeTLS == "kubernetes.io/tls"
SecretTypeOpaque == "Opaque"
\* corev1.TLSCertKey "tls.crt", corev1.TLSPrivateKeyKey "tls.key", and the
\* "ca.crt" key of the tests, abbreviated to two characters each.
TLSCertKey == <<"t", "c">>
TLSPrivateKeyKey == <<"t", "k">>
CaCrtKey == <<"c", "a">>
\* The string "true" the enabled annotation is compared with.
TrueStr == <<"t", "r", "u", "e">>

\* ------------------------------------------------------------------------
\* Maps (Go map[string]T): functions whose DOMAIN is the set of present keys
\* ------------------------------------------------------------------------
EmptyMap == [k \in {} |-> <<>>]

Has(m, k) == k \in DOMAIN m

Put(m, k, v) == [x \in DOMAIN m \cup {k} |-> IF x = k THEN v ELSE m[x]]

\* ------------------------------------------------------------------------
\* strings.ToLower, strings.Split
\* ------------------------------------------------------------------------
LowerChar(c) ==
    CASE c = "T" -> "t"
      [] c = "R" -> "r"
      [] c = "U" -> "u"
      [] c = "E" -> "e"
      [] OTHER -> c

ToLower(s) == [i \in 1..Len(s) |-> LowerChar(s[i])]

RECURSIVE SplitFrom(_, _, _)
\* The fields of s[from..] separated by sep, cur being the characters of the
\* field read so far.
SplitFrom(s, i, cur) ==
    IF i > Len(s) THEN <<cur>>
    ELSE IF s[i] = "," THEN <<cur>> \o SplitFrom(s, i + 1, <<>>)
    ELSE SplitFrom(s, i + 1, Append(cur, s[i]))

\* strings.Split(s, ","): the empty string yields one empty field.
Split(s) == SplitFrom(s, 1, <<>>)

\* ------------------------------------------------------------------------
\* filepath.Match (path/filepath/match.go), for patterns made of literal
\* characters, '*', '?' and '[...]' classes ('^' negates; no '-' ranges and
\* no '\' escapes occur in the patterns of this model).  Names hold no path
\* separator.  The result is [ok |-> matched, err |-> ErrBadPattern raised].
\* ------------------------------------------------------------------------
Drop(s, n) == SubSeq(s, n + 1, Len(s))

RECURSIVE LeadingStars(_)
LeadingStars(p) == IF Len(p) > 0 /\ p[1] = "*" THEN 1 + LeadingStars(Tail(p)) ELSE 0

RECURSIVE ChunkEnd(_, _, _)
\* scanChunk's scan loop: the index of the first '*' outside a class, from i.
ChunkEnd(p, i, inrange) ==
    IF i > Len(p) THEN i
    ELSE IF p[i] = "[" THEN ChunkEnd(p, i + 1, TRUE)
    ELSE IF p[i] = "]" THEN ChunkEnd(p, i + 1, FALSE)
    ELSE IF p[i] = "*" /\ ~inrange THEN i
    ELSE ChunkEnd(p, i + 1, inrange)

ScanChunk(pattern) ==
    LET n == LeadingStars(pattern)
        p == Drop(pattern, n)
        e == ChunkEnd(p, 1, FALSE)
    IN  [star |-> n > 0, chunk |-> SubSeq(p, 1, e - 1), rest |-> Drop(p, e - 1)]

RECURSIVE ClassRanges(_, _, _, _)
\* The range loop of a class: chunk follows '[' and '^'; r is the rune read
\* from the name ("" once the match has failed); nrange counts the members
\* read.  Result: [err, match, chunk after the closing ']'].
ClassRanges(chunk, r, nrange, match) ==
    IF Len(chunk) > 0 /\ chunk[1] = "]" /\ nrange > 0
    THEN [err |-> FALSE, match |-> match, chunk |-> Tail(chunk)]
    ELSE IF Len(chunk) = 0 \/ chunk[1] = "-" \/ chunk[1] = "]"
    THEN [err |-> TRUE, match |-> FALSE, chunk |-> <<>>]
    ELSE IF Len(chunk) = 1
    THEN [err |-> TRUE, match |-> FALSE, chunk |-> <<>>]
    ELSE ClassRanges(Tail(chunk), r, nrange + 1, match \/ chunk[1] = r)

RECURSIVE MatchChunk(_, _, _)
\* matchChunk: after the match has failed the rest of the chunk is still
\* scanned for a malformed class.  Result: [rest, ok, err].
MatchChunk(chunk, s, failed0) ==
    IF Len(chunk) = 0
    THEN [rest |-> IF failed0 THEN <<>> ELSE s, ok |-> ~failed0, err |-> FALSE]
    ELSE
    LET failed == failed0 \/ Len(s) = 0
    IN  IF chunk[1] = "["
        THEN LET r == IF failed THEN "" ELSE s[1]
                 s1 == IF failed THEN s ELSE Tail(s)
                 c1 == Tail(chunk)
                 negated == Len(c1) > 0 /\ c1[1] = "^"
                 c2 == IF negated THEN Tail(c1) ELSE c1
                 cls == ClassRanges(c2, r, 0, FALSE)
             IN  IF cls.err THEN [rest |-> <<>>, ok |-> FALSE, err |-> TRUE]
                 ELSE MatchChunk(cls.chunk, s1, failed \/ (cls.match = negated))
        ELSE IF chunk[1] = "?"
        THEN MatchChunk(Tail(chunk), IF failed THEN s ELSE Tail(s), failed)
        ELSE MatchChunk(Tail(chunk), IF failed THEN s ELSE Tail(s),
                        failed \/ chunk[1] # s[1])

RECURSIVE StarSkip(_, _, _, _)
\* Match's loop after a '*': look for a match of chunk skipping i + 1 runes.
\* Result: [found, name after the match, err].
StarSkip(chunk, rest, name, i) ==
    IF i >= Len(name) THEN [found |-> FALSE, name |-> name, err |-> FALSE]
    ELSE LET m == MatchChunk(chunk, Drop(name, i + 1), FALSE)
         IN  IF m.ok
             THEN IF Len(rest) = 0 /\ Len(m.rest) > 0
                  THEN StarSkip(chunk, rest, name, i + 1)
                  ELSE [found |-> TRUE, name |-> m.rest, err |-> FALSE]
             ELSE IF m.err THEN [found |-> FALSE, name |-> name, err |-> TRUE]
             ELSE StarSkip(chunk, rest, name, i + 1)

RECURSIVE Match(_, _)
Match(pattern, name) ==
    IF Len(pattern) = 0 THEN [ok |-> Len(name) = 0, err |-> FALSE]
    ELSE
    LET sc == ScanChunk(pattern)
    IN  IF sc.star /\ Len(sc.chunk) = 0 THEN [ok |-> TRUE, err |-> FALSE]
        ELSE
        LET m == MatchChunk(sc.chunk, name, FALSE)
        IN  IF m.ok /\ (Len(m.rest) = 0 \/ Len(sc.rest) > 0)
            THEN Match(sc.rest, m.rest)
            ELSE IF m.err THEN [ok |-> FALSE, err |-> TRUE]
            ELSE IF sc.star
            THEN LET k == StarSkip(sc.chunk, sc.rest, name, 0)
                 IN  IF k.found THEN Match(sc.rest, k.name)
                     ELSE [ok |-> FALSE, err |-> k.err]
            ELSE [ok |-> FALSE, err |-> FALSE]

\* ------------------------------------------------------------------------
\* The cluster: namespaces, and the objects that carry the source's name
\* ------------------------------------------------------------------------
\* Namespace names.  Home is the namespace the source object lives in.
Home == <<"h">>
NsA == <<"a">>
NsB == <<"b">>
\* Every namespace name, in the order a namespace listing returns them.
NsOrder == <<NsA, NsB, Home>>
AllNamespaces == {NsOrder[n] : n \in 1..Len(NsOrder)}

\* Bounds of the model.
MaxLen == 3
MaxEdits == 1
MaxErrors == 1
MaxRemovals == 1

\* An object of the reconciled kind (corev1.Secret; a ConfigMap is the same
\* record with a type that is never kubernetes.io/tls).
Object(annotations, labels, data, type) ==
    [annotations |-> annotations, labels |-> labels, data |-> data,
     type |-> type, finalizers |-> {}, deleting |-> FALSE]

\* The values the annotations, labels and payload of the source are drawn from.
EnabledValues == {TrueStr, <<"n", "o">>}
ReplicateToValues == {<<"a", "*">>, <<"h", ",", "b">>, <<"a", "*", ",", "[">>}
ReplicateKeysValues == {<<"c", "*">>, <<"x", ",", "t", "c">>}
\* Filter values at the edges: the empty string and malformed patterns.
EmptyValue == <<>>
EdgeToValues == {EmptyValue, <<"a", "*", ",", "[">>}
EdgeKeysValues == {EmptyValue, <<"[">>}
LabelMaps == {EmptyMap, [k \in {"app", ManagedByLabel} |-> IF k = "app" THEN "web" ELSE "helm"]}
DataMaps ==
    {[k \in {TLSCertKey, TLSPrivateKeyKey, CaCrtKey} |-> "v1"],
     [k \in {TLSCertKey, TLSPrivateKeyKey, CaCrtKey} |-> IF k = CaCrtKey THEN "v2" ELSE "v1"]}
SecretTypes == {SecretTypeTLS, SecretTypeOpaque}

\* Annotation maps: each of the three annotations absent or one of its values.
AnnotationMaps(enabledValues, toValues, keysValues) ==
    {LET e == IF en = <<"-">> THEN EmptyMap ELSE Put(EmptyMap, AnnotationEnabledKey, en)
         t == IF to = <<"-">> THEN e ELSE Put(e, AnnotationReplicateToKey, to)
     IN  IF ks = <<"-">> THEN t ELSE Put(t, AnnotationReplicateKeysKey, ks) :
     en \in enabledValues \cup {<<"-">>},
     to \in toValues \cup {<<"-">>},
     ks \in keysValues \cup {<<"-">>}}

\* The patterns and the names (namespace names, payload keys) that occur.
Patterns ==
    UNION {{Split(v)[n] : n \in 1..Len(Split(v))} : v \in ReplicateToValues \cup ReplicateKeysValues \cup EdgeToValues \cup EdgeKeysValues}
Names == AllNamespaces \cup {TLSCertKey, TLSPrivateKeyKey, CaCrtKey}

\* filepath.Match over the patterns and names that occur, computed once:
\* the triples <<pattern, name, result>>.
MatchResults == {<<a[1], a[2], Match(a[1], a[2])>> : a \in Patterns \X Names}

MatchResult(pattern, name) ==
    (CHOOSE r \in MatchResults : r[1] = pattern /\ r[2] = name)[3]

VARIABLES
    clusterNamespaces, \* the namespaces that exist
    store,             \* namespace -> the object named after the source there
    queue,             \* the work queue: pending request keys (deduplicated)
    pc,                \* position of the worker inside Reconcile
    req,               \* req.NamespacedName.Namespace of the running attempt
    secret,            \* the loaded source object (local copy)
    namespaces,        \* namespaces.Items of the attempt's listing
    pos,               \* position of the running loop in its list
    existingSecrets,   \* namespaces of the discovered objects
    template,          \* the projected replica
    desiredSecrets,    \* namespaces of the desired replicas
    removedSecrets,    \* diff: namespaces to delete from
    addedSecrets,      \* diff: namespaces to upsert into
    err,               \* the attempt's outcome: "none" or the failing step
    writes,            \* store writes issued by the running attempt
    hist,              \* bookkeeping: dirty (an external change happened during
                       \* the running attempt), last (the key of the last attempt,
                       \* if it succeeded and nothing changed since), again (the
                       \* running attempt repeats last), mapped (the namespaces
                       \* whose creation event was mapped to requests)
    edits,             \* external edits so far
    errs,              \* store errors so far
    removals           \* external replica removals so far

cluster == <<clusterNamespaces, store>>
locals == <<secret, namespaces, pos, existingSecrets, template, desiredSecrets,
            removedSecrets, addedSecrets>>
budgets == <<edits, errs, removals>>
vars == <<clusterNamespaces, store, queue, pc, req, secret, namespaces, pos,
          existingSecrets, template, desiredSecrets, removedSecrets,
          addedSecrets, err, writes, hist, edits, errs, removals>>

\* ------------------------------------------------------------------------
\* Pure parts of Reconcile
\* ------------------------------------------------------------------------
\* Mutant: any value of the enabled annotation enables replication.
EnabledWhenPresent(obj) == Has(obj.annotations, AnnotationEnabledKey)

\* Mutant: the enabled annotation is compared as written.
EnabledExactly(obj) ==
    /\ Has(obj.annotations, AnnotationEnabledKey)
    /\ obj.annotations[AnnotationEnabledKey] = TrueStr

\* secret_controller.go 81-86: the enabled annotation, compared in lower case.
Enabled(obj) ==
    /\ Has(obj.annotations, AnnotationEnabledKey)
    /\ ToLower(obj.annotations[AnnotationEnabledKey]) = TrueStr

\* Mutant: the finalizer is never seen on the loaded object.
NeverContainsFinalizer(obj) == FALSE

\* 94, 149: controllerutil.ContainsFinalizer.
ContainsFinalizer(obj) == FinalizerName \in obj.finalizers

\* 167-172 and 210-215: a pattern list is the annotation split on ",", and
\* empty (nil) when the annotation is absent.
Filters(obj, key) ==
    IF Has(obj.annotations, key) THEN Split(obj.annotations[key]) ELSE <<>>

RECURSIVE AnyMatch(_, _)
\* 197-204 and 225-232: the patterns are tried in order up to the first match;
\* an ErrBadPattern met on the way aborts.  Result: [ok, err].
AnyMatch(filters, name) ==
    IF Len(filters) = 0 THEN [ok |-> FALSE, err |-> FALSE]
    ELSE LET m == MatchResult(Head(filters), name)
         IN  IF m.err THEN [ok |-> FALSE, err |-> TRUE]
             ELSE IF m.ok THEN [ok |-> TRUE, err |-> FALSE]
             ELSE AnyMatch(Tail(filters), name)

\* Mutant: the deletion marker of the loaded object.
NeverDeleting(obj) == FALSE

\* 136: !secret.GetDeletionTimestamp().IsZero()
Deleting(obj) == obj.deleting

\* Mutant: the pattern list is ignored.
SelectsEverything(filters, name) == [ok |-> TRUE, err |-> FALSE]

\* 196-207 / 224-235: an empty pattern list selects everything.
Selects(filters, name) ==
    IF Len(filters) > 0 THEN AnyMatch(filters, name) ELSE [ok |-> TRUE, err |-> FALSE]

\* Mutant: a managed-by label of the source is kept.
TemplateLabelsKeepMarker(obj) ==
    IF Has(obj.labels, ManagedByLabel) THEN obj.labels
    ELSE Put(obj.labels, ManagedByLabel, ManagedByValue)

\* 183-187: the source's labels, then the managed-by marker.
TemplateLabels(obj) == Put(obj.labels, ManagedByLabel, ManagedByValue)

\* Mutant: no placeholders.
NoPlaceholders(obj) == EmptyMap

\* 189-193: the placeholders of a kubernetes.io/tls secret.
Placeholders(obj) ==
    IF obj.type = SecretTypeTLS
    THEN [k \in {TLSCertKey, TLSPrivateKeyKey} |-> ""]
    ELSE EmptyMap

\* Mutant: the whole payload is copied, whatever the key filter.
TemplateDataUnfiltered(obj, keyFilters) ==
    LET base == Placeholders(obj)
    IN  [k \in DOMAIN base \cup DOMAIN obj.data |->
            IF k \in DOMAIN obj.data THEN obj.data[k] ELSE base[k]]

\* 195-208: the payload keys the key filter selects overwrite the placeholders.
TemplateData(obj, keyFilters) ==
    LET base == Placeholders(obj)
        picked == {k \in DOMAIN obj.data : Selects(keyFilters, k).ok}
    IN  [k \in DOMAIN base \cup picked |-> IF k \in picked THEN obj.data[k] ELSE base[k]]

\* 167-208: the template, or the key filter error.  Result: [err, object].
BuildTemplate(obj) ==
    LET keyFilters == Filters(obj, AnnotationReplicateKeysKey)
    IN  [err |-> \E k \in DOMAIN obj.data : Selects(keyFilters, k).err,
         object |-> Object(EmptyMap, TemplateLabels(obj),
                           TemplateData(obj, keyFilters), obj.type)]

\* Mutant: the source's own namespace is filtered like every other.
DesiredFromAll(items, own, namespaceFilters) ==
    IF \E n \in 1..Len(items) : Selects(namespaceFilters, items[n]).err
    THEN [err |-> TRUE, items |-> <<>>]
    ELSE [err |-> FALSE,
          items |-> SelectSeq(items, LAMBDA n : Selects(namespaceFilters, n).ok)]

\* 217-243: the namespaces of the listing, in order, that are not the
\* source's own and that the namespace filter selects; the loop aborts on the
\* first pattern error.  Result: [err, items].
DesiredFrom(items, own, namespaceFilters) ==
    LET others == SelectSeq(items, LAMBDA n : n # own)
    IN  IF \E n \in 1..Len(others) : Selects(namespaceFilters, others[n]).err
        THEN [err |-> TRUE, items |-> <<>>]
        ELSE [err |-> FALSE,
              items |-> SelectSeq(others, LAMBDA n : Selects(namespaceFilters, n).ok)]

InSeq(x, s) == \E n \in 1..Len(s) : s[n] = x

\* Mutant: every desired entry is added, whatever exists.
diffSecretsAddsAll(existing, desired) ==
    [removed |-> SelectSeq(existing, LAMBDA e : ~InSeq(e, desired)),
     added |-> desired]

\* Mutant: nothing is added once any replica exists.
diffSecretsOnceOnly(existing, desired) ==
    [removed |-> SelectSeq(existing, LAMBDA e : ~InSeq(e, desired)),
     added |-> IF Len(existing) > 0 THEN <<>> ELSE desired]

\* 302-332 (diffObjects, configmap_controller.go 275-305): the two lists are
\* compared by namespace alone.
diffSecrets(existing, desired) ==
    [removed |-> SelectSeq(existing, LAMBDA e : ~InSeq(e, desired)),
     added |-> SelectSeq(desired, LAMBDA d : ~InSeq(d, existing))]

\* ------------------------------------------------------------------------
\* The object store (client.Client against the API server)
\* ------------------------------------------------------------------------
Without(st, ns) == [n \in DOMAIN st \ {ns} |-> st[n]]

\* Delete: an object that carries finalizers only receives its deletion
\* marker; an object without finalizers is removed.
DeleteObject(st, ns) ==
    IF st[ns].finalizers # {}
    THEN [st EXCEPT ![ns].deleting = TRUE]
    ELSE Without(st, ns)

\* An update that leaves an object pending deletion without finalizers lets
\* the store remove it.
Collect(st, ns) ==
    IF st[ns].deleting /\ st[ns].finalizers = {} THEN Without(st, ns) ELSE st

\* updater.CreateOrUpdateFromTemplate: create the object, or overwrite the
\* labels, payload and type of the object that is there.
CreateOrUpdateFromTemplate(st, ns, tmpl) ==
    IF ns \in DOMAIN st
    THEN [st EXCEPT ![ns].labels = tmpl.labels, ![ns].data = tmpl.data,
                    ![ns].type = tmpl.type]
    ELSE [n \in DOMAIN st \cup {ns} |-> IF n = ns THEN tmpl ELSE st[n]]

\* A namespace listing: the existing namespaces in the store's order.
ListNamespaces == SelectSeq(NsOrder, LAMBDA n : n \in clusterNamespaces)

\* ------------------------------------------------------------------------
\* Bookkeeping shared by the actions
\* ------------------------------------------------------------------------
NoObject == Object(EmptyMap, EmptyMap, EmptyMap, "")
NoKey == <<>>

Write(op, ns) == [op |-> op, ns |-> ns]

\* The attempt ends: with "none" it returns success, else the named error.
Done(e) == pc' = "done" /\ err' = e

\* Mutant: a failed store call is recorded and the attempt goes on.
StoreErrorGoesOn(e) == errs < MaxErrors /\ errs' = errs + 1 /\ pc' = pc /\ err' = e

\* A store call fails with an error other than not-found.
StoreError(e) == errs < MaxErrors /\ errs' = errs + 1 /\ Done(e)

\* A change made by someone other than the running attempt.
External == hist' = [hist EXCEPT !.dirty = pc # "idle", !.last = NoKey]

\* ------------------------------------------------------------------------
\* Reconcile (secret_controller.go 67-264, configmap_controller.go 50-238),
\* one action per store call
\* ------------------------------------------------------------------------
\* Mutant: a source pending deletion passes the gate whatever its annotation.
LoadPassesDeleted(k) ==
    /\ pc = "idle"
    /\ k \in queue
    /\ queue' = queue \ {k}
    /\ req' = k
    /\ writes' = <<>>
    /\ hist' = [hist EXCEPT !.dirty = FALSE, !.again = (hist.last = k)]
    /\ \/ StoreError("get") /\ UNCHANGED <<secret, edits, removals>>
       \/ /\ k \notin DOMAIN store
          /\ Done("none")
          /\ UNCHANGED <<secret, budgets>>
       \/ /\ k \in DOMAIN store
          /\ secret' = store[k]
          /\ IF ~Enabled(store[k]) /\ ~store[k].deleting THEN Done("none")
             ELSE /\ err' = "none"
                  /\ pc' = IF ContainsFinalizer(store[k]) THEN "list" ELSE "addFinalizer"
          /\ UNCHANGED budgets
    /\ UNCHANGED <<cluster, namespaces, pos, existingSecrets, template,
                   desiredSecrets, removedSecrets, addedSecrets>>

\* Mutant: the request stays on the queue while its attempt runs.
LoadKeepsRequest(k) ==
    /\ pc = "idle"
    /\ k \in queue
    /\ queue' = queue
    /\ req' = k
    /\ writes' = <<>>
    /\ hist' = [hist EXCEPT !.dirty = FALSE, !.again = (hist.last = k)]
    /\ \/ StoreError("get") /\ UNCHANGED <<secret, edits, removals>>
       \/ /\ k \notin DOMAIN store
          /\ Done("none")
          /\ UNCHANGED <<secret, budgets>>
       \/ /\ k \in DOMAIN store
          /\ secret' = store[k]
          /\ IF ~Enabled(store[k]) THEN Done("none")
             ELSE /\ err' = "none"
                  /\ pc' = IF ContainsFinalizer(store[k]) THEN "list" ELSE "addFinalizer"
          /\ UNCHANGED budgets
    /\ UNCHANGED <<cluster, namespaces, pos, existingSecrets, template,
                   desiredSecrets, removedSecrets, addedSecrets>>

\* Mutant: a source that is not found is reported as an error.
LoadSurfacesNotFound(k) ==
    /\ pc = "idle"
    /\ k \in queue
    /\ queue' = queue \ {k}
    /\ req' = k
    /\ writes' = <<>>
    /\ hist' = [hist EXCEPT !.dirty = FALSE, !.again = (hist.last = k)]
    /\ \/ StoreError("get") /\ UNCHANGED <<secret, edits, removals>>
       \/ /\ k \notin DOMAIN store
          /\ Done("notFound")
          /\ UNCHANGED <<secret, budgets>>
       \/ /\ k \in DOMAIN store
          /\ secret' = store[k]
          /\ IF ~Enabled(store[k]) THEN Done("none")
             ELSE /\ err' = "none"
                  /\ pc' = IF ContainsFinalizer(store[k]) THEN "list" ELSE "addFinalizer"
          /\ UNCHANGED budgets
    /\ UNCHANGED <<cluster, namespaces, pos, existingSecrets, template,
                   desiredSecrets, removedSecrets, addedSecrets>>

\* Mutant: the finalizer patch is issued whether or not the loaded source
\* carries the finalizer.
LoadAlwaysAddsFinalizer(k) ==
    /\ pc = "idle"
    /\ k \in queue
    /\ queue' = queue \ {k}
    /\ req' = k
    /\ writes' = <<>>
    /\ hist' = [hist EXCEPT !.dirty = FALSE, !.again = (hist.last = k)]
    /\ \/ StoreError("get") /\ UNCHANGED <<secret, edits, removals>>
       \/ /\ k \notin DOMAIN store
          /\ Done("none")
          /\ UNCHANGED <<secret, budgets>>
       \/ /\ k \in DOMAIN store
          /\ secret' = store[k]
          /\ IF ~Enabled(store[k]) THEN Done("none")
             ELSE /\ err' = "none"
                  /\ pc' = "addFinalizer"
          /\ UNCHANGED budgets
    /\ UNCHANGED <<cluster, namespaces, pos, existingSecrets, template,
                   desiredSecrets, removedSecrets, addedSecrets>>

\* 72-105: the worker takes a request off the queue, loads the object and
\* passes the enabled gate.
Load(k) ==
    /\ pc = "idle"
    /\ k \in queue
    /\ queue' = queue \ {k}
    /\ req' = k
    /\ writes' = <<>>
    /\ hist' = [hist EXCEPT !.dirty = FALSE, !.again = (hist.last = k)]
    /\ \/ StoreError("get") /\ UNCHANGED <<secret, edits, removals>>
       \/ /\ k \notin DOMAIN store
          /\ Done("none")
          /\ UNCHANGED <<secret, budgets>>
       \/ /\ k \in DOMAIN store
          /\ secret' = store[k]
          /\ IF ~Enabled(store[k]) THEN Done("none")
             ELSE /\ err' = "none"
                  /\ pc' = IF ContainsFinalizer(store[k]) THEN "list" ELSE "addFinalizer"
          /\ UNCHANGED budgets
    /\ UNCHANGED <<cluster, namespaces, pos, existingSecrets, template,
                   desiredSecrets, removedSecrets, addedSecrets>>

\* Mutant: the finalizer is added to the copy that was loaded and that copy is
\* written back whole, over whatever the owner has changed since.
AddFinalizerFromLoadedCopy ==
    /\ pc = "addFinalizer"
    /\ \/ StoreError("addFinalizer") /\ UNCHANGED <<store, queue, secret, writes, edits, removals>>
       \/ /\ writes' = Append(writes, Write("addFinalizer", req))
          /\ IF req \notin DOMAIN store \/ store[req].deleting
             THEN Done("addFinalizer") /\ UNCHANGED <<store, queue, secret>>
             ELSE /\ store' = [store EXCEPT
                                  ![req] = [secret EXCEPT !.finalizers = @ \cup {FinalizerName}]]
                  /\ secret' = store'[req]
                  /\ queue' = queue \cup {req}
                  /\ pc' = "list"
                  /\ err' = "none"
          /\ UNCHANGED budgets
    /\ UNCHANGED <<clusterNamespaces, req, namespaces, pos, existingSecrets,
                   template, desiredSecrets, removedSecrets, addedSecrets, hist>>

\* Mutant: a failed finalizer patch is ignored and the attempt goes on.
AddFinalizerGoesOn ==
    /\ pc = "addFinalizer"
    /\ \/ /\ errs < MaxErrors
          /\ errs' = errs + 1
          /\ pc' = "list"
          /\ err' = "none"
          /\ UNCHANGED <<store, queue, secret, writes, edits, removals>>
       \/ /\ writes' = Append(writes, Write("addFinalizer", req))
          /\ IF req \notin DOMAIN store \/ store[req].deleting
             THEN Done("addFinalizer") /\ UNCHANGED <<store, queue, secret>>
             ELSE /\ store' = [store EXCEPT ![req].finalizers = @ \cup {FinalizerName}]
                  /\ secret' = store'[req]
                  /\ queue' = queue \cup {req}
                  /\ pc' = "list"
                  /\ err' = "none"
          /\ UNCHANGED budgets
    /\ UNCHANGED <<clusterNamespaces, req, namespaces, pos, existingSecrets,
                   template, desiredSecrets, removedSecrets, addedSecrets, hist>>

\* Mutant: the finalizer patch is accepted on a source pending deletion.
AddFinalizerWhileDeleting ==
    /\ pc = "addFinalizer"
    /\ \/ StoreError("addFinalizer") /\ UNCHANGED <<store, queue, secret, writes, edits, removals>>
       \/ /\ writes' = Append(writes, Write("addFinalizer", req))
          /\ IF req \notin DOMAIN store
             THEN Done("addFinalizer") /\ UNCHANGED <<store, queue, secret>>
             ELSE /\ store' = [store EXCEPT ![req].finalizers = @ \cup {FinalizerName}]
                  /\ secret' = store'[req]
                  /\ queue' = queue \cup {req}
                  /\ pc' = "list"
                  /\ err' = "none"
          /\ UNCHANGED budgets
    /\ UNCHANGED <<clusterNamespaces, req, namespaces, pos, existingSecrets,
                   template, desiredSecrets, removedSecrets, addedSecrets, hist>>

\* 94-105: controllerutil.CreateOrPatch reads the object again, adds the
\* finalizer and patches.  An object that is gone cannot be created from the
\* stale copy, and the API server accepts no new finalizer on an object that
\* is pending deletion.
AddFinalizer ==
    /\ pc = "addFinalizer"
    /\ \/ StoreError("addFinalizer") /\ UNCHANGED <<store, queue, secret, writes, edits, removals>>
       \/ /\ writes' = Append(writes, Write("addFinalizer", req))
          /\ IF req \notin DOMAIN store \/ store[req].deleting
             THEN Done("addFinalizer") /\ UNCHANGED <<store, queue, secret>>
             ELSE /\ store' = [store EXCEPT ![req].finalizers = @ \cup {FinalizerName}]
                  /\ secret' = store'[req]
                  /\ queue' = queue \cup {req}
                  /\ pc' = "list"
                  /\ err' = "none"
          /\ UNCHANGED budgets
    /\ UNCHANGED <<clusterNamespaces, req, namespaces, pos, existingSecrets,
                   template, desiredSecrets, removedSecrets, addedSecrets, hist>>

\* 107-110
ListNamespacesStep ==
    /\ pc = "list"
    /\ \/ StoreError("list") /\ UNCHANGED <<namespaces, pos, edits, removals>>
       \/ /\ namespaces' = ListNamespaces
          /\ pos' = 1
          /\ pc' = "discover"
          /\ UNCHANGED <<err, budgets>>
    /\ UNCHANGED <<cluster, queue, req, secret, existingSecrets, template,
                   desiredSecrets, removedSecrets, addedSecrets, writes, hist>>

\* Mutant: a replica get that fails is tried again.
DiscoverRetries ==
    /\ pc = "discover"
    /\ pos <= Len(namespaces)
    /\ \/ /\ namespaces[pos] # req
          /\ errs < MaxErrors
          /\ errs' = errs + 1
          /\ UNCHANGED <<pc, err, pos, existingSecrets, edits, removals>>
       \/ /\ pos' = pos + 1
          /\ existingSecrets' =
                IF namespaces[pos] # req /\ namespaces[pos] \in DOMAIN store
                THEN Append(existingSecrets, namespaces[pos])
                ELSE existingSecrets
          /\ UNCHANGED <<pc, err, budgets>>
    /\ UNCHANGED <<cluster, queue, req, secret, namespaces, template,
                   desiredSecrets, removedSecrets, addedSecrets, writes, hist>>

\* 112-134: one iteration of the discovery loop.
Discover ==
    /\ pc = "discover"
    /\ pos <= Len(namespaces)
    /\ \/ /\ namespaces[pos] # req
          /\ StoreError("check")
          /\ UNCHANGED <<pos, existingSecrets, edits, removals>>
       \/ /\ pos' = pos + 1
          /\ existingSecrets' =
                IF namespaces[pos] # req /\ namespaces[pos] \in DOMAIN store
                THEN Append(existingSecrets, namespaces[pos])
                ELSE existingSecrets
          /\ UNCHANGED <<pc, err, budgets>>
    /\ UNCHANGED <<cluster, queue, req, secret, namespaces, template,
                   desiredSecrets, removedSecrets, addedSecrets, writes, hist>>

\* Mutant: the filters are evaluated before the deletion marker is looked at,
\* so a malformed pattern ends the attempt of a source pending deletion too.
DiscoveredFiltersFirst ==
    /\ pc = "discover"
    /\ pos > Len(namespaces)
    /\ IF BuildTemplate(secret).err
             \/ DesiredFrom(namespaces, req, Filters(secret, AnnotationReplicateToKey)).err
       THEN Done(IF BuildTemplate(secret).err THEN "keyFilter" ELSE "namespaceFilter")
            /\ UNCHANGED pos
       ELSE /\ pc' = IF Deleting(secret) THEN "teardown" ELSE "project"
            /\ pos' = 1
            /\ UNCHANGED err
    /\ UNCHANGED <<cluster, queue, req, secret, namespaces, existingSecrets,
                   template, desiredSecrets, removedSecrets, addedSecrets,
                   writes, hist, budgets>>

\* 136: after the loop, the deletion marker of the loaded source decides.
Discovered ==
    /\ pc = "discover"
    /\ pos > Len(namespaces)
    /\ pc' = IF Deleting(secret) THEN "teardown" ELSE "project"
    /\ pos' = 1
    /\ UNCHANGED <<cluster, queue, req, secret, namespaces, existingSecrets,
                   template, desiredSecrets, removedSecrets, addedSecrets, err,
                   writes, hist, budgets>>

\* Mutant: a delete loop that skips an entry whose delete fails.
DeleteNextIgnoringErrors(list) ==
    /\ pos <= Len(list)
    /\ pos' = pos + 1
    /\ \/ /\ errs < MaxErrors
          /\ errs' = errs + 1
          /\ UNCHANGED <<store, queue, writes, edits, removals>>
       \/ /\ writes' = Append(writes, Write("delete", list[pos]))
          /\ IF list[pos] \in DOMAIN store
             THEN /\ store' = DeleteObject(store, list[pos])
                  /\ queue' = queue \cup {list[pos]}
             ELSE UNCHANGED <<store, queue>>
          /\ UNCHANGED budgets
    /\ UNCHANGED <<pc, err>>

\* Mutant: a delete that finds its object gone aborts the attempt.
DeleteNextSurfacesNotFound(list) ==
    /\ pos <= Len(list)
    /\ \/ StoreError("delete") /\ UNCHANGED <<store, queue, pos, writes, edits, removals>>
       \/ /\ writes' = Append(writes, Write("delete", list[pos]))
          /\ IF list[pos] \in DOMAIN store
             THEN /\ store' = DeleteObject(store, list[pos])
                  /\ queue' = queue \cup {list[pos]}
                  /\ pos' = pos + 1
                  /\ UNCHANGED <<pc, err>>
             ELSE Done("delete") /\ UNCHANGED <<store, queue, pos>>
          /\ UNCHANGED budgets

\* One iteration of a delete loop over list (139-147, 247-255): not-found is
\* skipped, any other error aborts.
DeleteNext(list) ==
    /\ pos <= Len(list)
    /\ \/ StoreError("delete") /\ UNCHANGED <<store, queue, pos, writes, edits, removals>>
       \/ /\ writes' = Append(writes, Write("delete", list[pos]))
          /\ pos' = pos + 1
          /\ IF list[pos] \in DOMAIN store
             THEN /\ store' = DeleteObject(store, list[pos])
                  /\ queue' = queue \cup {list[pos]}
             ELSE UNCHANGED <<store, queue>>
          /\ UNCHANGED <<pc, err, budgets>>

\* 139-147
Teardown ==
    /\ pc = "teardown"
    /\ DeleteNext(existingSecrets)
    /\ UNCHANGED <<clusterNamespaces, req, secret, namespaces, existingSecrets,
                   template, desiredSecrets, removedSecrets, addedSecrets, hist>>

\* 149-162: with every delete done, the finalizer is removed if the loaded
\* source carries it.
TornDown ==
    /\ pc = "teardown"
    /\ pos > Len(existingSecrets)
    /\ IF ContainsFinalizer(secret)
       THEN pc' = "removeFinalizer" /\ UNCHANGED err
       ELSE Done("none")
    /\ UNCHANGED <<cluster, queue, req, locals, writes, hist, budgets>>

\* 152-160: CreateOrPatch reads the source again, removes the finalizer and
\* patches; the store then removes the source if nothing else holds it.
RemoveFinalizer ==
    /\ pc = "removeFinalizer"
    /\ \/ StoreError("removeFinalizer") /\ UNCHANGED <<store, queue, writes, edits, removals>>
       \/ /\ writes' = Append(writes, Write("removeFinalizer", req))
          /\ IF req \notin DOMAIN store
             THEN Done("removeFinalizer") /\ UNCHANGED <<store, queue>>
             ELSE /\ store' = Collect([store EXCEPT ![req].finalizers = @ \ {FinalizerName}], req)
                  /\ queue' = queue \cup {req}
                  /\ Done("none")
          /\ UNCHANGED budgets
    /\ UNCHANGED <<clusterNamespaces, req, locals, hist>>

\* Mutant: the desired loop upserts as it goes, so the namespaces accepted
\* before a malformed pattern is met have their replica written.
ProjectUpsertsAsItGoes ==
    /\ pc = "project"
    /\ \E t \in {BuildTemplate(secret)},
          d \in {DesiredFrom(namespaces, req, Filters(secret, AnnotationReplicateToKey))} :
          IF t.err \/ d.err
          THEN /\ Done(IF t.err THEN "keyFilter" ELSE "namespaceFilter")
               /\ writes' = writes \o
                     [n \in 1..(IF t.err THEN 0 ELSE 1) |-> Write("upsert", namespaces[1])]
               /\ UNCHANGED <<template, desiredSecrets, removedSecrets, addedSecrets, pos>>
          ELSE /\ template' = t.object
               /\ desiredSecrets' = d.items
               /\ removedSecrets' = diffSecrets(existingSecrets, d.items).removed
               /\ addedSecrets' = diffSecrets(existingSecrets, d.items).added
               /\ pos' = 1
               /\ pc' = "convergeDelete"
               /\ UNCHANGED <<err, writes>>
    /\ UNCHANGED <<cluster, queue, req, secret, namespaces, existingSecrets,
                   hist, budgets>>

\* Mutant: the desired list is built from a second namespace listing, taken
\* after discovery.
ProjectListsAgain ==
    /\ pc = "project"
    /\ \E t \in {BuildTemplate(secret)},
          d \in {DesiredFrom(ListNamespaces, req, Filters(secret, AnnotationReplicateToKey))} :
          IF t.err \/ d.err
          THEN /\ Done(IF t.err THEN "keyFilter" ELSE "namespaceFilter")
               /\ UNCHANGED <<template, desiredSecrets, removedSecrets, addedSecrets, pos>>
          ELSE /\ template' = t.object
               /\ desiredSecrets' = d.items
               /\ removedSecrets' = diffSecrets(existingSecrets, d.items).removed
               /\ addedSecrets' = diffSecrets(existingSecrets, d.items).added
               /\ pos' = 1
               /\ pc' = "convergeDelete"
               /\ UNCHANGED err
    /\ UNCHANGED <<cluster, queue, req, secret, namespaces, existingSecrets,
                   writes, hist, budgets>>

\* 167-245: the template, the desired list and the diff; a malformed pattern
\* met while filtering aborts the attempt.
Project ==
    /\ pc = "project"
    /\ \E t \in {BuildTemplate(secret)},
          d \in {DesiredFrom(namespaces, req, Filters(secret, AnnotationReplicateToKey))} :
          IF t.err \/ d.err
          THEN /\ Done(IF t.err THEN "keyFilter" ELSE "namespaceFilter")
               /\ UNCHANGED <<template, desiredSecrets, removedSecrets, addedSecrets, pos>>
          ELSE /\ template' = t.object
               /\ desiredSecrets' = d.items
               /\ removedSecrets' = diffSecrets(existingSecrets, d.items).removed
               /\ addedSecrets' = diffSecrets(existingSecrets, d.items).added
               /\ pos' = 1
               /\ pc' = "convergeDelete"
               /\ UNCHANGED err
    /\ UNCHANGED <<cluster, queue, req, secret, namespaces, existingSecrets,
                   writes, hist, budgets>>

\* 247-255
ConvergeDelete ==
    /\ pc = "convergeDelete"
    /\ DeleteNext(removedSecrets)
    /\ UNCHANGED <<clusterNamespaces, req, secret, namespaces, existingSecrets,
                   template, desiredSecrets, removedSecrets, addedSecrets, hist>>

ConvergeDeleted ==
    /\ pc = "convergeDelete"
    /\ pos > Len(removedSecrets)
    /\ pc' = "convergeUpsert"
    /\ pos' = 1
    /\ UNCHANGED <<cluster, queue, req, secret, namespaces, existingSecrets,
                   template, desiredSecrets, removedSecrets, addedSecrets, err,
                   writes, hist, budgets>>

\* 257-261: one iteration of the upsert loop.
ConvergeUpsert ==
    /\ pc = "convergeUpsert"
    /\ pos <= Len(addedSecrets)
    /\ \/ StoreError("replicate") /\ UNCHANGED <<store, queue, pos, writes, edits, removals>>
       \/ /\ writes' = Append(writes, Write("upsert", addedSecrets[pos]))
          /\ store' = CreateOrUpdateFromTemplate(store, addedSecrets[pos], template)
          /\ queue' = queue \cup {addedSecrets[pos]}
          /\ pos' = pos + 1
          /\ UNCHANGED <<pc, err, budgets>>
    /\ UNCHANGED <<clusterNamespaces, req, secret, namespaces, existingSecrets,
                   template, desiredSecrets, removedSecrets, addedSecrets, hist>>

\* 263
Converged ==
    /\ pc = "convergeUpsert"
    /\ pos > Len(addedSecrets)
    /\ Done("none")
    /\ UNCHANGED <<cluster, queue, req, locals, writes, hist, budgets>>

\* Mutant: a successful attempt asks for a time-based re-check.
RequeueAfterSuccess(e) == IF e = "none" THEN 1 ELSE 0

\* 79, 91, 162, 263 and every error return: the RequeueAfter of the ctrl.Result
\* that Reconcile returns with outcome e.  Every return statement of both
\* controllers returns ctrl.Result{}.
RequeueAfter(e) == 0

\* Reconcile has returned: an error, or a result that asks for a re-check,
\* puts the request back on the queue.
Return ==
    /\ pc = "done"
    /\ pc' = "idle"
    /\ queue' = IF err = "none" /\ RequeueAfter(err) = 0 THEN queue ELSE queue \cup {req}
    /\ hist' = [hist EXCEPT !.dirty = FALSE, !.again = FALSE,
                             !.last = IF err = "none" /\ ~hist.dirty THEN req ELSE NoKey]
    /\ req' = NoKey
    /\ secret' = NoObject
    /\ namespaces' = <<>>
    /\ pos' = 1
    /\ existingSecrets' = <<>>
    /\ template' = NoObject
    /\ desiredSecrets' = <<>>
    /\ removedSecrets' = <<>>
    /\ addedSecrets' = <<>>
    /\ err' = "none"
    /\ writes' = <<>>
    /\ UNCHANGED <<cluster, budgets>>

\* ------------------------------------------------------------------------
\* The triggers (SetupWithManager, secret_controller.go 266-300)
\* ------------------------------------------------------------------------
\* Mutant: a namespace event maps to no request.
NoNamespaceRequests(listFails) == {}

\* Mutant: the source's own key is left out of the requests.
NamespaceRequestsWithoutSource(listFails) == IF listFails THEN {} ELSE DOMAIN store \ {Home}

\* 271-298: the requests a namespace event maps to: none when the listing of
\* the objects fails, else one per object of the kind.
NamespaceRequests(listFails) == IF listFails THEN {} ELSE DOMAIN store

\* Mutant: the deletion marker of the namespace is not looked at.
MapNamespaceEventIgnoresMarker(deleting, listFails) == NamespaceRequests(listFails)

\* 271-298: the map function of the namespace watch.  An event whose
\* namespace carries a deletion marker maps to no request (275-277) before
\* anything is listed; any other event maps to what the listing gives.
MapNamespaceEvent(deleting, listFails) ==
    IF deleting THEN {} ELSE NamespaceRequests(listFails)

\* A namespace is created; its event is mapped to requests.
CreateNamespace(ns) ==
    /\ ns \notin clusterNamespaces
    /\ clusterNamespaces' = clusterNamespaces \cup {ns}
    /\ \/ /\ errs < MaxErrors
          /\ errs' = errs + 1
          /\ queue' = queue \cup NamespaceRequests(TRUE)
          /\ External
       \/ /\ queue' = queue \cup NamespaceRequests(FALSE)
          /\ hist' = [hist EXCEPT !.dirty = pc # "idle", !.last = NoKey,
                                   !.mapped = @ \cup {ns}]
          /\ UNCHANGED errs
    /\ UNCHANGED <<store, pc, req, locals, err, writes, edits, removals>>

\* 269 For(&corev1.Secret{}): an edit of the source by its owner; the update
\* event puts the source's key on the queue.
UpdateSource(annotationMaps, labelMaps, dataMaps) ==
    /\ Home \in DOMAIN store
    /\ edits < MaxEdits
    /\ edits' = edits + 1
    /\ \E a \in annotationMaps, l \in labelMaps, d \in dataMaps :
          /\ <<a, l, d>> # <<store[Home].annotations, store[Home].labels, store[Home].data>>
          /\ store' = [store EXCEPT ![Home].annotations = a, ![Home].labels = l,
                                    ![Home].data = d]
    /\ queue' = queue \cup {Home}
    /\ External
    /\ UNCHANGED <<clusterNamespaces, pc, req, locals, err, writes, errs, removals>>

\* The owner deletes the source: the delete event puts its key on the queue.
DeleteSource ==
    /\ Home \in DOMAIN store
    /\ ~store[Home].deleting
    /\ store' = DeleteObject(store, Home)
    /\ queue' = queue \cup {Home}
    /\ External
    /\ UNCHANGED <<clusterNamespaces, pc, req, locals, err, writes, budgets>>

\* A namespace other than the source's own is deleted: it gets its deletion
\* marker, the store removes what it holds and then the namespace itself.  Its
\* events carry the deletion marker and go through the map function (271-298);
\* the delete event of an object it held carries that object's key (269).
\* The namespaces an attempt in flight has listed stay, so that the writes of
\* the attempt still have their namespace.
DeleteNamespace(ns) ==
    /\ ns \in clusterNamespaces \ {Home}
    /\ \A n \in 1..Len(namespaces) : namespaces[n] # ns
    /\ clusterNamespaces' = clusterNamespaces \ {ns}
    /\ store' = Without(store, ns)
    /\ queue' = queue \cup MapNamespaceEvent(TRUE, FALSE) \cup ({ns} \cap DOMAIN store)
    /\ External
    /\ UNCHANGED <<pc, req, locals, err, writes, budgets>>

\* Someone else removes a replica; the delete event carries the replica's key.
RemoveReplica(ns) ==
    /\ ns # Home
    /\ ns \in DOMAIN store
    /\ removals < MaxRemovals
    /\ removals' = removals + 1
    /\ store' = Without(store, ns)
    /\ queue' = queue \cup {ns}
    /\ External
    /\ UNCHANGED <<clusterNamespaces, pc, req, locals, err, writes, edits, errs>>

\* ------------------------------------------------------------------------
\* Specifications
\* ------------------------------------------------------------------------
\* The source has just been created in Home with one of the given contents;
\* its create event is on the queue.
InitWith(annotationMaps, labelMaps, dataMaps, types, namespaceSets) ==
    /\ clusterNamespaces \in namespaceSets
    /\ \E a \in annotationMaps, l \in labelMaps, d \in dataMaps, t \in types :
          store = [n \in {Home} |-> Object(a, l, d, t)]
    /\ queue = {Home}
    /\ pc = "idle"
    /\ req = NoKey
    /\ secret = NoObject
    /\ namespaces = <<>>
    /\ pos = 1
    /\ existingSecrets = <<>>
    /\ template = NoObject
    /\ desiredSecrets = <<>>
    /\ removedSecrets = <<>>
    /\ addedSecrets = <<>>
    /\ err = "none"
    /\ writes = <<>>
    /\ hist = [dirty |-> FALSE, again |-> FALSE, last |-> NoKey, mapped |-> {}]
    /\ edits = 0
    /\ errs = 0
    /\ removals = 0

Reconcile ==
    \/ \E k \in AllNamespaces : Load(k)
    \/ AddFinalizer
    \/ ListNamespacesStep
    \/ Discover
    \/ Discovered
    \/ Teardown
    \/ TornDown
    \/ RemoveFinalizer
    \/ Project
    \/ ConvergeDelete
    \/ ConvergeDeleted
    \/ ConvergeUpsert
    \/ Converged
    \/ Return

\* Spec: the namespace side.  The payload, labels and key filter are fixed;
\* the enabled and replicate-to annotations and the namespaces vary.
DefaultData == [k \in {TLSCertKey, TLSPrivateKeyKey, CaCrtKey} |-> "v1"]
TopologyAnnotations == AnnotationMaps(EnabledValues, ReplicateToValues, {})
NamespaceSets == {{Home} \cup S : S \in SUBSET {NsA, NsB}}

Init ==
    InitWith(TopologyAnnotations, {EmptyMap}, {DefaultData}, {SecretTypeOpaque},
             NamespaceSets)

Next ==
    \/ Reconcile
    \/ UpdateSource(TopologyAnnotations, {EmptyMap}, {DefaultData})
    \/ DeleteSource
    \/ \E ns \in AllNamespaces : CreateNamespace(ns)

Spec == Init /\ [][Next]_vars

\* SpecPayload: the payload side.  The source is enabled; it is created with
\* any key filter, labels and type, its owner edits the payload (and narrows
\* the replicate-to filter), and replicas may be removed by someone else.
PayloadAnnotations ==
    {a \in AnnotationMaps({TrueStr}, {<<"a", "*">>}, ReplicateKeysValues) :
        Has(a, AnnotationEnabledKey)}

PayloadEdits ==
    {a \in PayloadAnnotations :
        Has(a, AnnotationReplicateToKey) /\ ~Has(a, AnnotationReplicateKeysKey)}

PayloadInit ==
    InitWith(PayloadAnnotations, LabelMaps, {DefaultData}, SecretTypes, {{Home, NsA}})

PayloadNext ==
    \/ Reconcile
    \/ UpdateSource(PayloadEdits, {EmptyMap}, DataMaps)
    \/ DeleteSource
    \/ \E ns \in AllNamespaces : CreateNamespace(ns)
    \/ \E ns \in AllNamespaces : RemoveReplica(ns)

SpecPayload == PayloadInit /\ [][PayloadNext]_vars

\* SpecLive: an enabled source whose replicate-to filter varies, with a worker
\* that keeps running: it takes the pending requests off the queue and takes
\* every attempt to its end.
LiveAnnotations ==
    {a \in AnnotationMaps({TrueStr}, {<<"a", "*">>, <<"a", "*", ",", "[">>}, {}) :
        Has(a, AnnotationEnabledKey)}

LiveInit ==
    InitWith(LiveAnnotations, {EmptyMap}, {DefaultData}, {SecretTypeOpaque},
             {{Home}, {Home, NsB}})

LiveNext ==
    \/ Reconcile
    \/ UpdateSource(LiveAnnotations, {EmptyMap}, {DefaultData})
    \/ DeleteSource
    \/ \E ns \in AllNamespaces : CreateNamespace(ns)

SpecLive == LiveInit /\ [][LiveNext]_vars /\ WF_vars(Reconcile)

\* SpecFilters: an enabled source whose two filter annotations are absent,
\* empty or malformed.
FilterAnnotations ==
    {a \in AnnotationMaps({TrueStr}, EdgeToValues, EdgeKeysValues) :
        Has(a, AnnotationEnabledKey)}

FilterInit ==
    InitWith(FilterAnnotations, {EmptyMap}, {DefaultData}, {SecretTypeOpaque},
             {{Home, NsA}, {Home, NsA, NsB}})

FilterNext ==
    \/ Reconcile
    \/ UpdateSource(FilterAnnotations, {EmptyMap}, {DefaultData})
    \/ DeleteSource
    \/ \E ns \in AllNamespaces : CreateNamespace(ns)

SpecFilters == FilterInit /\ [][FilterNext]_vars

\* SpecResume: attempts that fail and are retried in a cluster whose
\* namespaces are fixed; the owner may edit or delete the source.
ResumeNext ==
    \/ Reconcile
    \/ UpdateSource(TopologyAnnotations, {EmptyMap}, {DefaultData})
    \/ DeleteSource

SpecResume == Init /\ [][ResumeNext]_vars

\* SpecForeign: the enabled source may carry a finalizer of someone else, which
\* keeps it in the store, pending deletion, after its owner deletes it.
OtherFinalizer == "kubernetes.io/other"
ForeignAnnotations ==
    {a \in AnnotationMaps({TrueStr}, {<<"a", "*">>}, {}) : Has(a, AnnotationEnabledKey)}

ForeignInit ==
    /\ clusterNamespaces \in NamespaceSets
    /\ \E a \in ForeignAnnotations, f \in {{}, {OtherFinalizer}} :
          store = [n \in {Home} |->
                      [Object(a, EmptyMap, DefaultData, SecretTypeOpaque) EXCEPT !.finalizers = f]]
    /\ queue = {Home}
    /\ pc = "idle"
    /\ req = NoKey
    /\ secret = NoObject
    /\ namespaces = <<>>
    /\ pos = 1
    /\ existingSecrets = <<>>
    /\ template = NoObject
    /\ desiredSecrets = <<>>
    /\ removedSecrets = <<>>
    /\ addedSecrets = <<>>
    /\ err = "none"
    /\ writes = <<>>
    /\ hist = [dirty |-> FALSE, again |-> FALSE, last |-> NoKey, mapped |-> {}]
    /\ edits = 0
    /\ errs = 0
    /\ removals = 0

ForeignNext ==
    \/ Reconcile
    \/ UpdateSource(ForeignAnnotations, {EmptyMap}, {DefaultData})
    \/ DeleteSource
    \/ \E ns \in AllNamespaces : CreateNamespace(ns)

SpecForeign == ForeignInit /\ [][ForeignNext]_vars

\* SpecNamespaces: namespaces come and go around the enabled source.
NamespacesNext ==
    \/ ForeignNext
    \/ \E ns \in AllNamespaces : DeleteNamespace(ns)

SpecNamespaces == ForeignInit /\ [][NamespacesNext]_vars

\* SpecGate: the enabled gate on its own.  The enabled annotation is absent or
\* one of: "true" in every mix of upper and lower case, and values that are
\* not "true" (empty, shorter, longer, reversed, other words).
TrueSpellings ==
    {sp \in [1..4 -> {"t", "T", "r", "R", "u", "U", "e", "E"}] :
        /\ sp[1] \in {"t", "T"}
        /\ sp[2] \in {"r", "R"}
        /\ sp[3] \in {"u", "U"}
        /\ sp[4] \in {"e", "E"}}

GateValues ==
    TrueSpellings \cup
        {EmptyValue, <<"t">>, <<"t", "r", "u">>, <<"t", "r", "u", "e", "e">>,
         <<"e", "u", "r", "t">>, <<"T", "R", "U">>, <<"n", "o">>, <<"1">>}

GateInit ==
    InitWith(AnnotationMaps(GateValues, {}, {}), {EmptyMap}, {DefaultData},
             {SecretTypeOpaque}, NamespaceSets)

GateNext ==
    \/ \E k \in AllNamespaces : Load(k)
    \/ Return

SpecGate == GateInit /\ [][GateNext]_vars

\* SpecNeighbour: next to the enabled source in Home, namespace NsB holds from
\* the start an object of the same kind and name that Reconcile did not
\* write: an unrelated object, or a second enabled source.
Unrelated == Object(EmptyMap, EmptyMap, DefaultData, SecretTypeOpaque)
SecondSource ==
    Object(Put(EmptyMap, AnnotationEnabledKey, TrueStr), EmptyMap, DefaultData, SecretTypeOpaque)

NeighbourInit ==
    /\ clusterNamespaces \in {{Home, NsB}, {Home, NsA, NsB}}
    /\ \E a \in ForeignAnnotations, o \in {Unrelated, SecondSource} :
          store = [n \in {Home, NsB} |->
                      IF n = Home THEN Object(a, EmptyMap, DefaultData, SecretTypeOpaque) ELSE o]
    /\ queue = {Home, NsB}
    /\ pc = "idle"
    /\ req = NoKey
    /\ secret = NoObject
    /\ namespaces = <<>>
    /\ pos = 1
    /\ existingSecrets = <<>>
    /\ template = NoObject
    /\ desiredSecrets = <<>>
    /\ removedSecrets = <<>>
    /\ addedSecrets = <<>>
    /\ err = "none"
    /\ writes = <<>>
    /\ hist = [dirty |-> FALSE, again |-> FALSE, last |-> NoKey, mapped |-> {}]
    /\ edits = 0
    /\ errs = 0
    /\ removals = 0

SpecNeighbour == NeighbourInit /\ [][ForeignNext]_vars

\* SpecDiff: the diff on its own.  The two lists are any lists of at most
\* MaxLen entries, each entry standing for the object of one namespace.
DiffNamespaces == {<<"a">>, <<"b">>, <<"c">>, <<"d">>}
DiffLists == UNION {[1..n -> DiffNamespaces] : n \in 0..MaxLen}

DiffInit ==
    /\ existingSecrets \in DiffLists
    /\ desiredSecrets \in DiffLists
    /\ pc = "diff"
    /\ clusterNamespaces = {}
    /\ store = EmptyMap
    /\ queue = {}
    /\ req = NoKey
    /\ secret = NoObject
    /\ namespaces = <<>>
    /\ pos = 1
    /\ template = NoObject
    /\ removedSecrets = <<>>
    /\ addedSecrets = <<>>
    /\ err = "none"
    /\ writes = <<>>
    /\ hist = [dirty |-> FALSE, again |-> FALSE, last |-> NoKey, mapped |-> {}]
    /\ edits = 0
    /\ errs = 0
    /\ removals = 0

\* 245: removedSecrets, addedSecrets := diffSecrets(existingSecrets, desiredSecrets)
Diff ==
    /\ pc = "diff"
    /\ removedSecrets' = diffSecrets(existingSecrets, desiredSecrets).removed
    /\ addedSecrets' = diffSecrets(existingSecrets, desiredSecrets).added
    /\ pc' = "diffed"
    /\ UNCHANGED <<cluster, queue, req, secret, namespaces, pos, existingSecrets,
                   template, desiredSecrets, err, writes, hist, budgets>>

DiffNext == Diff

SpecDiff == DiffInit /\ [][DiffNext]_vars

\* ------------------------------------------------------------------------
\* Properties
\* ------------------------------------------------------------------------
\* The pattern list of an annotation of obj matches name: the annotation is
\* absent, or one of its comma-separated patterns matches.
MatchesFilter(obj, key, name) ==
    \/ ~Has(obj.annotations, key)
    \/ \E n \in 1..Len(Split(obj.annotations[key])) :
          Match(Split(obj.annotations[key])[n], name).ok

\* The attempt for an enabled source without deletion marker has returned
\* success.
Replicated ==
    /\ pc = "done"
    /\ err = "none"
    /\ Has(secret.annotations, AnnotationEnabledKey)
    /\ ToLower(secret.annotations[AnnotationEnabledKey]) = TrueStr
    /\ ~secret.deleting

Issued(op) == {writes[n].ns : n \in {m \in 1..Len(writes) : writes[m].op = op}}

\* C1: when the attempt for an enabled source without deletion marker has
\* returned success, then in every listed namespace other than the source's
\* own an object named after the source exists if and only if the namespace
\* matches the replicate-to filter.
C1_ReplicasFollowNamespaceFilter ==
    Replicated =>
        \A n \in 1..Len(namespaces) :
            namespaces[n] # req =>
                (namespaces[n] \in DOMAIN store
                    <=> MatchesFilter(secret, AnnotationReplicateToKey, namespaces[n]))

\* C1 witness: a successful attempt under a replicate-to filter that deleted
\* the replica of a namespace that no longer matches and created the missing
\* replica of one that does.
C1_Witness ==
    /\ Replicated
    /\ Has(secret.annotations, AnnotationReplicateToKey)
    /\ Issued("delete") # {}
    /\ Issued("upsert") # {}

\* C2: after a successful attempt for an enabled source without deletion
\* marker, with no external change during the attempt, every replica in a
\* matching namespace has the payload and the labels of the projection of the
\* source.
C2_ReplicasEqualProjection ==
    (Replicated /\ ~hist.dirty /\ req = Home) =>
        \A n \in 1..Len(desiredSecrets) :
            /\ desiredSecrets[n] \in DOMAIN store
            /\ store[desiredSecrets[n]].data = BuildTemplate(secret).object.data
            /\ store[desiredSecrets[n]].labels = BuildTemplate(secret).object.labels

\* The step upserts the replica of namespace ns.
Upserts(ns) == writes' = Append(writes, Write("upsert", ns))

TLSKeys == {TLSCertKey, TLSPrivateKeyKey}

\* C3: in the replica an upsert writes, every payload key of the source that
\* the replicate-keys filter selects (the filter is absent, or one of its
\* patterns matches the key) has the source's value; a key the filter
\* excludes is missing or is an empty TLS placeholder; and the replica has no
\* key that is not in the source, apart from the empty TLS placeholders.
C3_ReplicaPayloadFollowsKeyFilter ==
    [][\A ns \in AllNamespaces :
          Upserts(ns) =>
              /\ ns \in DOMAIN store'
              /\ \A k \in DOMAIN secret.data :
                    IF MatchesFilter(secret, AnnotationReplicateKeysKey, k)
                    THEN k \in DOMAIN store'[ns].data /\ store'[ns].data[k] = secret.data[k]
                    ELSE \/ k \notin DOMAIN store'[ns].data
                         \/ (secret.type = SecretTypeTLS /\ k \in TLSKeys
                                /\ store'[ns].data[k] = "")
              /\ \A k \in DOMAIN store'[ns].data :
                    \/ k \in DOMAIN secret.data
                    \/ (secret.type = SecretTypeTLS /\ k \in TLSKeys
                           /\ store'[ns].data[k] = "")]_vars

\* C3 witness: a replica of an Opaque source was upserted under the key filter
\* "c*": it holds ca.crt alone.
C3_Witness ==
    /\ Issued("upsert") # {}
    /\ secret.type = SecretTypeOpaque
    /\ Has(secret.annotations, AnnotationReplicateKeysKey)
    /\ secret.annotations[AnnotationReplicateKeysKey] = <<"c", "*">>
    /\ \E ns \in Issued("upsert") :
          ns \in DOMAIN store /\ DOMAIN store[ns].data = {CaCrtKey}

\* C4: the replica an upsert writes for a kubernetes.io/tls source holds
\* tls.crt and tls.key: with the source's value when the source has the key
\* and the key filter selects it, else with the empty value.
C4_TLSReplicaHasCertAndKey ==
    [][\A ns \in AllNamespaces :
          (Upserts(ns) /\ secret.type = SecretTypeTLS) =>
              /\ ns \in DOMAIN store'
              /\ \A k \in TLSKeys :
                    /\ k \in DOMAIN store'[ns].data
                    /\ store'[ns].data[k] =
                          IF k \in DOMAIN secret.data
                             /\ MatchesFilter(secret, AnnotationReplicateKeysKey, k)
                          THEN secret.data[k]
                          ELSE ""]_vars

\* C4 witness: a replica of a TLS source was upserted under a key filter that
\* selects tls.crt and excludes tls.key.
C4_Witness ==
    /\ secret.type = SecretTypeTLS
    /\ \E ns \in Issued("upsert") :
          /\ ns \in DOMAIN store
          /\ store[ns].data[TLSCertKey] = "v1"
          /\ store[ns].data[TLSPrivateKeyKey] = ""

\* The loaded object is a source that was found in the store.
Loaded == secret # NoObject

\* The enabled annotation of obj is absent or, in lower case, not "true".
NotEnabled(obj) ==
    \/ ~Has(obj.annotations, AnnotationEnabledKey)
    \/ ToLower(obj.annotations[AnnotationEnabledKey]) # TrueStr

\* The objects named after the source in namespaces other than its own.
Replicas == DOMAIN store \ {Home}

\* C5: the attempt that loads a source whose enabled annotation is absent or
\* not "true" ends at once with success, has issued no store write (no
\* finalizer patch, no upsert, no delete) and leaves the store as it was.
C5_DisabledSourceIsNotWritten ==
    [][(pc = "idle" /\ pc' # "idle" /\ secret' # NoObject /\ NotEnabled(secret'))
          => (pc' = "done" /\ err' = "none" /\ writes' = <<>> /\ store' = store)]_vars

\* C5 witness: such an attempt has ended for a source that was replicated
\* before the annotation was changed: it still carries the finalizer and a
\* replica still exists.
C5_Witness ==
    /\ pc = "done"
    /\ err = "none"
    /\ req = Home
    /\ Loaded
    /\ NotEnabled(secret)
    /\ writes = <<>>
    /\ FinalizerName \in secret.finalizers
    /\ Replicas # {}

\* C6: in the deletion branch the finalizer removal is reached or issued only
\* when a delete has been issued for every discovered replica; an attempt
\* whose delete failed has issued no finalizer removal; and once the attempt
\* has removed the finalizer, no replica it discovered exists any more.
C6_FinalizerRemovedAfterReplicaDeletes ==
    /\ (pc = "removeFinalizer" \/ Issued("removeFinalizer") # {}) =>
           \A n \in 1..Len(existingSecrets) : existingSecrets[n] \in Issued("delete")
    /\ (pc = "done" /\ err = "delete") =>
           /\ Issued("removeFinalizer") = {}
           /\ (secret.deleting /\ ~hist.dirty) =>
                  (req \in DOMAIN store /\ FinalizerName \in store[req].finalizers)
    /\ (pc = "done" /\ err = "none" /\ Issued("removeFinalizer") # {}) =>
           \A n \in 1..Len(existingSecrets) : existingSecrets[n] \notin DOMAIN store

\* C6 witness: the finalizer has been removed by an attempt that discovered
\* a replica, after a store error.
C6_Witness ==
    /\ pc = "done"
    /\ err = "none"
    /\ Issued("removeFinalizer") # {}
    /\ Len(existingSecrets) >= 1
    /\ errs > 0

\* The source is enabled, carries the finalizer and has its deletion marker.
SourceDeleting ==
    /\ Home \in DOMAIN store
    /\ ~NotEnabled(store[Home])
    /\ FinalizerName \in store[Home].finalizers
    /\ store[Home].deleting

\* C7: once the enabled source carries the finalizer and the deletion marker,
\* eventually no replica is left and the source is gone from the store.
C7_DeletedSourceIsTornDown == SourceDeleting ~> (DOMAIN store = {})

\* C7 witness: the source and two replicas exist, the source has its deletion
\* marker, and a store error has occurred.
C7_Witness ==
    /\ SourceDeleting
    /\ Replicas = {NsA, NsB}
    /\ errs > 0

\* C8: after a successful attempt for a source that still exists, the
\* finalizer is on the source if and only if the source is enabled and has no
\* deletion marker.
C8_FinalizerIffEnabledAndNotDeleted ==
    (pc = "done" /\ err = "none" /\ ~hist.dirty /\ req = Home /\ Home \in DOMAIN store) =>
        (FinalizerName \in store[Home].finalizers
            <=> (~NotEnabled(store[Home]) /\ ~store[Home].deleting))

Malformed(pattern) == \E name \in AllNamespaces : Match(pattern, name).err

\* No pattern of the replicate-to list of obj is malformed.
WellFormed(obj) ==
    \/ ~Has(obj.annotations, AnnotationReplicateToKey)
    \/ \A n \in 1..Len(Split(obj.annotations[AnnotationReplicateToKey])) :
          ~Malformed(Split(obj.annotations[AnnotationReplicateToKey])[n])

\* The creation event of namespace ns was mapped to requests, and the source
\* is enabled, has no deletion marker and a replicate-to filter that ns
\* matches.
AwaitsReplica(ns) ==
    /\ ns \in hist.mapped
    /\ Home \in DOMAIN store
    /\ ~NotEnabled(store[Home])
    /\ ~store[Home].deleting
    /\ MatchesFilter(store[Home], AnnotationReplicateToKey, ns)

Count(s, ns) == Cardinality({n \in 1..Len(s) : s[n] = ns})

Range(s) == {s[n] : n \in 1..Len(s)}

\* C11: the diff returns as removed exactly the existing entries whose
\* namespace occurs in no desired entry and as added exactly the desired
\* entries whose namespace occurs in no existing entry; a namespace of both
\* lists is in neither result, and removed and added share no namespace.
C11_DiffIsExact ==
    pc = "diffed" =>
        /\ \A ns \in DiffNamespaces :
              /\ Count(removedSecrets, ns) =
                    IF ns \in Range(desiredSecrets) THEN 0 ELSE Count(existingSecrets, ns)
              /\ Count(addedSecrets, ns) =
                    IF ns \in Range(existingSecrets) THEN 0 ELSE Count(desiredSecrets, ns)
        /\ Range(removedSecrets) \cap Range(addedSecrets) = {}
        /\ (Range(existingSecrets) \cap Range(desiredSecrets))
              \cap (Range(removedSecrets) \cup Range(addedSecrets)) = {}

\* C11 witness: existing {a, b, c} and desired {b, c, d} gave removed {a} and
\* added {d}.
C11_Witness ==
    /\ pc = "diffed"
    /\ existingSecrets = <<<<"a">>, <<"b">>, <<"c">>>>
    /\ desiredSecrets = <<<<"b">>, <<"c">>, <<"d">>>>
    /\ removedSecrets = <<<<"a">>>>
    /\ addedSecrets = <<<<"d">>>>

\* C12: every write an attempt issues against its own namespace is a
\* finalizer patch: no upsert and no delete goes to the namespace of the
\* source, whatever the replicate-to filter is.
C12_OwnNamespaceIsNeverATarget ==
    \A n \in 1..Len(writes) :
        writes[n].ns = req <=> writes[n].op \in {"addFinalizer", "removeFinalizer"}

\* C12 witness: a successful attempt that wrote a replica under a replicate-to
\* list with a pattern that matches the source's own namespace.
C12_Witness ==
    /\ Replicated
    /\ req = Home
    /\ Has(secret.annotations, AnnotationReplicateToKey)
    /\ \E n \in 1..Len(Split(secret.annotations[AnnotationReplicateToKey])) :
          Match(Split(secret.annotations[AnnotationReplicateToKey])[n], Home).ok
    /\ Issued("upsert") # {}

\* C13: an attempt for an enabled source without deletion marker whose
\* replicate-to list holds a malformed pattern ends with an error.
C13_MalformedPatternIsAnError ==
    (pc = "done" /\ Loaded /\ ~hist.dirty /\ ~NotEnabled(secret) /\ ~secret.deleting
        /\ ~WellFormed(secret))
        => err # "none"

\* C14: an attempt that ends with a key-filter or namespace-filter error has
\* issued no upsert and no delete, and no replica was created, changed or
\* removed by it: the filters are evaluated in full before the first replica
\* write.
C14_FilterErrorWritesNoReplica ==
    /\ []((pc = "done" /\ err \in {"keyFilter", "namespaceFilter"}) =>
             Issued("upsert") \cup Issued("delete") = {})
    /\ [][(pc = "project" /\ pc' = "done") =>
              (err' \in {"keyFilter", "namespaceFilter"} /\ store' = store)]_vars

\* C14 witness: an attempt has ended with a namespace-filter error although
\* the namespace listed first passes the filter, and its only write is the
\* finalizer patch.
C14_Witness ==
    /\ pc = "done"
    /\ err = "namespaceFilter"
    /\ Len(namespaces) > 1
    /\ Selects(Filters(secret, AnnotationReplicateToKey), namespaces[1]).ok
    /\ writes = <<Write("addFinalizer", Home)>>

\* The annotation key of obj is present with the empty string as its value.
EmptyAnnotation(obj, key) == Has(obj.annotations, key) /\ obj.annotations[key] = EmptyValue

\* C15: an empty replicate-to or replicate-keys annotation behaves like an
\* absent one.  When the attempt for an enabled source without deletion marker
\* has returned success and replicate-to is the empty string, every listed
\* namespace other than the source's own holds a replica; and the replica an
\* upsert writes while replicate-keys is the empty string holds every payload
\* key of the source.
C15_EmptyAnnotationIsAbsent ==
    /\ []((pc = "done" /\ err = "none" /\ Loaded /\ ~hist.dirty /\ ~NotEnabled(secret)
              /\ ~secret.deleting /\ EmptyAnnotation(secret, AnnotationReplicateToKey))
             => \A n \in 1..Len(namespaces) :
                   namespaces[n] # req => namespaces[n] \in DOMAIN store)
    /\ [][\A ns \in AllNamespaces :
              (Upserts(ns) /\ EmptyAnnotation(secret, AnnotationReplicateKeysKey))
                  => DOMAIN secret.data \subseteq DOMAIN store'[ns].data]_vars

\* C16: the attempt whose request names an object that is not in the store
\* (the lookup answers not-found) ends at once with success, has issued no
\* store write and leaves the store as it was.
C16_MissingSourceIsSuccess ==
    [][(pc = "idle" /\ pc' # "idle" /\ req' \notin DOMAIN store /\ err' # "get")
          => (pc' = "done" /\ err' = "none" /\ writes' = <<>> /\ store' = store)]_vars

\* C16 witness: such an attempt has ended for the key of the source, which was
\* removed from the store before.
C16_Witness ==
    /\ pc = "done"
    /\ req = Home
    /\ Home \notin DOMAIN store
    /\ ~Loaded
    /\ err = "none"
    /\ writes = <<>>

\* The outcomes that are store errors.
StoreErrors == {"get", "addFinalizer", "list", "check", "delete", "removeFinalizer", "replicate"}

\* C17: the step at which a store call fails ends the attempt with that
\* error, leaves the store as the writes made so far left it (nothing is
\* rolled back) and keeps those writes in the attempt's log; and an attempt
\* that has ended issues no further store call.
C17_StoreErrorEndsAttempt ==
    /\ [][(err = "none" /\ err' \in StoreErrors)
              => /\ pc' = "done"
                 /\ store' = store
                 /\ Len(writes') >= Len(writes)
                 /\ SubSeq(writes', 1, Len(writes)) = writes]_vars
    /\ [][pc = "done" => (pc' = "idle" \/ (pc' = "done" /\ err' = err /\ writes' = writes))]_vars

\* C17 witness: an upsert failed after an earlier upsert of the same attempt
\* had been made: the attempt has ended with the error, the replica written
\* before is in the store and the namespace of the failed upsert has none.
C17_Witness ==
    /\ pc = "done"
    /\ err = "replicate"
    /\ pos = 2
    /\ Len(addedSecrets) = 2
    /\ addedSecrets[1] \in Issued("upsert")
    /\ addedSecrets[1] \in DOMAIN store
    /\ addedSecrets[2] \notin DOMAIN store

RECURSIVE DeleteAll(_, _)
\* The store after the delete loop over list (139-147, 247-255) has run
\* without error.
DeleteAll(st, list) ==
    IF Len(list) = 0 THEN st
    ELSE DeleteAll(IF Head(list) \in DOMAIN st THEN DeleteObject(st, Head(list)) ELSE st,
                   Tail(list))

RECURSIVE UpsertAll(_, _, _)
\* The store after the upsert loop over list (257-261) has run without error.
UpsertAll(st, list, tmpl) ==
    IF Len(list) = 0 THEN st
    ELSE UpsertAll(CreateOrUpdateFromTemplate(st, Head(list), tmpl), Tail(list), tmpl)

\* The store a single attempt for key k leaves when it starts from store st
\* with the namespaces cn, nobody else acts and no store call fails (67-264).
\* Where the attempt cannot go on (a finalizer patch the store rejects, a
\* filter error) the store is as the steps up to there left it.
AttemptOutcome(st, cn, k) ==
    IF k \notin DOMAIN st \/ ~Enabled(st[k]) THEN st
    ELSE IF ~ContainsFinalizer(st[k]) /\ st[k].deleting THEN st
    ELSE LET st1 == [st EXCEPT ![k].finalizers = @ \cup {FinalizerName}]
             items == SelectSeq(NsOrder, LAMBDA n : n \in cn)
             existing == SelectSeq(items, LAMBDA n : n # k /\ n \in DOMAIN st1)
             t == BuildTemplate(st1[k])
             d == DesiredFrom(items, k, Filters(st1[k], AnnotationReplicateToKey))
             df == diffSecrets(existing, d.items)
         IN  IF Deleting(st1[k])
             THEN Collect([DeleteAll(st1, existing) EXCEPT ![k].finalizers = @ \ {FinalizerName}], k)
             ELSE IF t.err \/ d.err THEN st1
             ELSE UpsertAll(DeleteAll(st1, df.removed), df.added, t.object)

\* What resumability compares: whether the object under key k is there, its
\* finalizers, and the set of namespaces that hold a replica.
FinalizerAndReplicas(st, k) ==
    [finalizers |-> IF k \in DOMAIN st THEN st[k].finalizers ELSE {},
     source |-> k \in DOMAIN st,
     replicas |-> DOMAIN st \ {k}]

\* C18: resumability.  While nobody else acts, no step of an attempt changes
\* the finalizer and replica set a single error-free attempt started from the
\* current store would end with, and an attempt that has returned success has
\* ended with exactly that.  So wherever an attempt aborts, the error-free
\* attempt that follows ends as a single error-free attempt from the original
\* state would have.
C18_AbortedAttemptIsResumed ==
    /\ [][(pc # "idle" /\ pc' # "idle" /\ ~hist'.dirty)
              => FinalizerAndReplicas(AttemptOutcome(store', clusterNamespaces', req), req)
                    = FinalizerAndReplicas(AttemptOutcome(store, clusterNamespaces, req), req)]_vars
    /\ []((pc = "done" /\ err = "none" /\ ~hist.dirty)
             => FinalizerAndReplicas(store, req)
                   = FinalizerAndReplicas(AttemptOutcome(store, clusterNamespaces, req), req))

\* C18 witness: an error-free attempt has ended whose only write is the upsert
\* into the namespace listed second, the replica of the namespace listed
\* first being there already, and the source was never edited: an earlier
\* attempt had aborted between the two upserts.
C18_Witness ==
    /\ pc = "done"
    /\ err = "none"
    /\ req = Home
    /\ errs = 1
    /\ edits = 0
    /\ writes = <<Write("upsert", NsB)>>
    /\ existingSecrets = <<NsA>>
    /\ desiredSecrets = <<NsA, NsB>>
    /\ DOMAIN store = {Home, NsA, NsB}

\* C19: not-found is not surfaced.  A delete issued for a replica that is no
\* longer in the store is skipped: the loop moves to its next entry and the
\* attempt is not ended.  A discovery lookup that finds no object leaves the
\* namespace out of the existing list and moves on.  The errors "check" and
\* "delete" only come from store calls that failed otherwise.  And the
\* finalizer removal and the upsert loop are reached with a delete issued for
\* every entry of the delete list.
C19_NotFoundIsSkipped ==
    /\ [][\A ns \in AllNamespaces :
              (writes' = Append(writes, Write("delete", ns)) /\ ns \notin DOMAIN store)
                  => (pc' = pc /\ err' = "none" /\ pos' = pos + 1 /\ store' = store)]_vars
    /\ [][(pc = "discover" /\ pos <= Len(namespaces) /\ pos' = pos + 1
               /\ namespaces[pos] \notin DOMAIN store)
              => (pc' = "discover" /\ err' = "none" /\ existingSecrets' = existingSecrets)]_vars
    /\ [][(err = "none" /\ err' \in {"check", "delete"}) => errs' = errs + 1]_vars
    /\ [](pc = "removeFinalizer" =>
             \A n \in 1..Len(existingSecrets) : existingSecrets[n] \in Issued("delete"))
    /\ [](pc = "convergeUpsert" =>
             \A n \in 1..Len(removedSecrets) : removedSecrets[n] \in Issued("delete"))

\* C19 witness: the attempt for a deleted source has returned success after
\* the replica it had discovered was removed by someone else before its
\* delete: the delete was issued all the same and the finalizer removed.
C19_Witness ==
    /\ pc = "done"
    /\ err = "none"
    /\ Loaded
    /\ secret.deleting
    /\ hist.dirty
    /\ removals = 1
    /\ edits = 0
    /\ errs = 0
    /\ hist.mapped = {}
    /\ existingSecrets = <<NsA>>
    /\ writes = <<Write("delete", NsA), Write("removeFinalizer", Home)>>

C22_SuccessSchedulesRecheck ==
    /\ (pc = "done" /\ err = "none" /\ Loaded /\ ~NotEnabled(secret) /\ ~secret.deleting)
           => RequeueAfter(err) # 0
    /\ (pc = "done" /\ Loaded /\ NotEnabled(secret) /\ Issued("addFinalizer") = {})
           => (err = "none" /\ RequeueAfter(err) = 0)

\* C23: the replica an upsert writes is the object named after the source in
\* the target namespace, and its labels are the source's labels with the
\* managed-by label set to "replikator", whatever value the source gives it.
C23_ReplicaLabelsAreSourceLabelsWithMarker ==
    [][\A ns \in AllNamespaces :
          Upserts(ns) =>
              /\ ns \in DOMAIN store'
              /\ DOMAIN store'[ns].labels = DOMAIN secret.labels \cup {ManagedByLabel}
              /\ store'[ns].labels[ManagedByLabel] = ManagedByValue
              /\ \A k \in DOMAIN secret.labels \ {ManagedByLabel} :
                    store'[ns].labels[k] = secret.labels[k]]_vars

\* C23 witness: a replica was upserted for a source labelled app=web and
\* managed-by=helm; it carries app=web and managed-by=replikator.
C23_Witness ==
    /\ Loaded
    /\ Has(secret.labels, ManagedByLabel)
    /\ secret.labels[ManagedByLabel] = "helm"
    /\ \E ns \in Issued("upsert") :
          /\ ns \in DOMAIN store
          /\ store[ns].labels["app"] = "web"
          /\ store[ns].labels[ManagedByLabel] = ManagedByValue

\* The object under key k carries this engine's finalizer.
Protected(st, k) == k \in DOMAIN st /\ FinalizerName \in st[k].finalizers

C25_EnabledIffTrueIgnoringCase ==
    [][(pc = "idle" /\ pc' # "idle" /\ req' \in DOMAIN store /\ err' # "get")
          => /\ (pc' \in {"addFinalizer", "list"})
                   <=> (/\ Has(store[req'].annotations, AnnotationEnabledKey)
                        /\ store[req'].annotations[AnnotationEnabledKey] \in TrueSpellings)
             /\ pc' \notin {"addFinalizer", "list"} => (pc' = "done" /\ err' = "none")]_vars

\* C25 witness: a source whose enabled annotation is "TrUe" has passed the gate.
C25_Witness ==
    /\ pc = "addFinalizer"
    /\ Loaded
    /\ Has(secret.annotations, AnnotationEnabledKey)
    /\ secret.annotations[AnnotationEnabledKey] = <<"T", "r", "U", "e">>

\* The attempt's next write is op on the object of namespace ns.
Issues(op, ns) == writes' = Append(writes, Write(op, ns))

\* C26: every object a delete of Reconcile removes carries the managed-by
\* label of this engine.
C26_DeletesOnlyMarkedObjects ==
    [][\A ns \in AllNamespaces :
          (Issues("delete", ns) /\ ns \in DOMAIN store)
              => /\ Has(store[ns].labels, ManagedByLabel)
                 /\ store[ns].labels[ManagedByLabel] = ManagedByValue]_vars

\* C27: the attempt for one source issues no delete and no upsert against the
\* object of another namespace that is itself an enabled source.
C27_SourcesDoNotDestroyEachOther ==
    [][\A ns \in AllNamespaces :
          (pc # "idle" /\ ns # req /\ ns \in DOMAIN store /\ Enabled(store[ns]))
              => (~Issues("delete", ns) /\ ~Issues("upsert", ns))]_vars

\* obj carries the finalizer and a deletion marker and is not enabled.
Stuck(obj) == obj.deleting /\ FinalizerName \in obj.finalizers /\ NotEnabled(obj)

\* C28: an attempt that loads a source which carries the finalizer and a
\* deletion marker and is not enabled ends at the gate with success and
\* without a write; and while the source is in that condition, the store
\* changes only by an edit of the source or by an attempt that was already
\* past the gate when the condition arose: every attempt started in the
\* condition leaves the source pending deletion with its finalizer and the
\* replicas in place.
C28_DisabledDeletedSourceStaysPending ==
    /\ [][(pc = "idle" /\ pc' # "idle" /\ req' \in DOMAIN store /\ err' # "get"
               /\ Stuck(store[req']))
              => (pc' = "done" /\ err' = "none" /\ writes' = <<>> /\ store' = store)]_vars
    /\ [][(Home \in DOMAIN store /\ Stuck(store[Home]) /\ edits' = edits
               /\ pc \in {"idle", "done"})
              => store' = store]_vars

\* C28 witness: such an attempt has ended: the source is pending deletion,
\* not enabled, still carries the finalizer, and a replica is still there.
C28_Witness ==
    /\ pc = "done"
    /\ err = "none"
    /\ req = Home
    /\ Loaded
    /\ Stuck(secret)
    /\ Home \in DOMAIN store
    /\ Stuck(store[Home])
    /\ writes = <<>>
    /\ Replicas # {}

\* C29: an attempt that has listed the namespaces or issued a replica delete
\* or upsert holds a loaded source that carries the finalizer (it did when
\* loaded, or the attempt's finalizer patch succeeded); and an attempt that
\* ended with a failed finalizer add has listed no namespace and issued no
\* replica write.
C29_ReplicaWritesFollowFinalizer ==
    /\ (pc \in {"discover", "teardown", "removeFinalizer", "project", "convergeDelete",
                 "convergeUpsert"}
           \/ Issued("delete") \cup Issued("upsert") # {})
           => (Loaded /\ FinalizerName \in secret.finalizers)
    /\ (pc = "done" /\ err = "addFinalizer")
           => (namespaces = <<>> /\ Issued("delete") \cup Issued("upsert") = {})

\* C29 witness: the finalizer patch of an attempt failed in a cluster with a
\* target namespace: the attempt has ended, the source is unprotected, no
\* namespace was listed and nothing was written.
C29_Witness ==
    /\ pc = "done"
    /\ err = "addFinalizer"
    /\ errs = 1
    /\ req = Home
    /\ Home \in DOMAIN store
    /\ ~Protected(store, Home)
    /\ ~store[Home].deleting
    /\ NsA \in clusterNamespaces
    /\ namespaces = <<>>
    /\ writes = <<>>

\* C30: the add patch is issued only for a loaded source that lacks the
\* finalizer and the remove patch only for one that is pending deletion and
\* carries it; an attempt issues at most one finalizer write, so a source
\* already in the wanted protection state receives none.
C30_FinalizerWritesOnlyWhenNeeded ==
    /\ [][Issues("addFinalizer", req) =>
              (Loaded /\ FinalizerName \notin secret.finalizers)]_vars
    /\ [][Issues("removeFinalizer", req) =>
              (Loaded /\ secret.deleting /\ FinalizerName \in secret.finalizers)]_vars
    /\ [](Cardinality({n \in 1..Len(writes) :
                          writes[n].op \in {"addFinalizer", "removeFinalizer"}}) <= 1)

\* C30 witness: an attempt loaded a source that is protected already and not
\* pending deletion, wrote a replica and ended in success without any
\* finalizer write.
C30_Witness ==
    /\ pc = "done"
    /\ err = "none"
    /\ req = Home
    /\ Loaded
    /\ ~secret.deleting
    /\ FinalizerName \in secret.finalizers
    /\ Issued("upsert") # {}
    /\ Issued("addFinalizer") \cup Issued("removeFinalizer") = {}

\* The outcomes that report a malformed pattern.
FilterErrors == {"keyFilter", "namespaceFilter"}

\* C31: the attempt for an enabled source with a deletion marker never ends
\* with a filter error and never upserts, whatever the replicate-to and
\* replicate-keys annotations hold; and when it ends in success no listed
\* namespace other than the source's own holds a replica any more, whether or
\* not the namespace matches the replicate-to filter, and the source no longer
\* carries the finalizer.
C31_TeardownIgnoresFilters ==
    (pc = "done" /\ Loaded /\ ~NotEnabled(secret) /\ secret.deleting) =>
        /\ err \notin FilterErrors
        /\ Issued("upsert") = {}
        /\ err = "none" =>
              /\ \A n \in 1..Len(namespaces) :
                    namespaces[n] # req => namespaces[n] \notin DOMAIN store
              /\ ~Protected(store, req)

\* C31 witness: the source, pending deletion, has a malformed replicate-to
\* list that NsB does not match; the attempt has deleted the replicas in NsA
\* and NsB, removed the finalizer and ended in success.
C31_Witness ==
    /\ pc = "done"
    /\ err = "none"
    /\ req = Home
    /\ Loaded
    /\ secret.deleting
    /\ ~WellFormed(secret)
    /\ ~MatchesFilter(secret, AnnotationReplicateToKey, NsB)
    /\ writes = <<Write("delete", NsA), Write("delete", NsB), Write("removeFinalizer", Home)>>
    /\ DOMAIN store = {}

\* Object b is object a but for the presence of the engine's finalizer.
SameButFinalizer(a, b) ==
    /\ a.annotations = b.annotations
    /\ a.labels = b.labels
    /\ a.data = b.data
    /\ a.type = b.type
    /\ a.deleting = b.deleting
    /\ a.finalizers \ {FinalizerName} = b.finalizers \ {FinalizerName}

\* C32: no step of Reconcile changes the annotations, labels, payload, type or
\* deletion marker of the source or any finalizer other than the engine's
\* own; the source leaves the store in a step of Reconcile only when it is
\* pending deletion and the engine's finalizer, the last it carried, is
\* removed.
C32_ReconcileOnlyTouchesItsFinalizer ==
    [][(Reconcile /\ Home \in DOMAIN store) =>
          IF Home \in DOMAIN store'
          THEN SameButFinalizer(store[Home], store'[Home])
          ELSE store[Home].deleting /\ store[Home].finalizers = {FinalizerName}]_vars

\* C32 witness: Reconcile has added its finalizer to a source that carries
\* another one and, after the owner deleted the source, has removed it again:
\* the source is still in the store with the other finalizer, its annotations
\* and its payload.
C32_Witness ==
    /\ pc = "done"
    /\ err = "none"
    /\ req = Home
    /\ Issued("removeFinalizer") = {Home}
    /\ Home \in DOMAIN store
    /\ store[Home].deleting
    /\ store[Home].finalizers = {OtherFinalizer}
    /\ store[Home].annotations \in ForeignAnnotations
    /\ store[Home].data = DefaultData

\* The number of replica writes (deletes and upserts) the attempt has issued
\* to namespace ns.
ReplicaWrites(ns) ==
    Cardinality({n \in 1..Len(writes) :
                    writes[n].ns = ns /\ writes[n].op \in {"delete", "upsert"}})

\* C33: an attempt issues at most one replica write, a delete or an upsert,
\* to a namespace, and only to namespaces of its one listing other than the
\* source's own: a namespace that is not in the listing is neither populated
\* nor cleaned.
C33_OneListingOneWritePerNamespace ==
    /\ \A ns \in AllNamespaces : ReplicaWrites(ns) <= 1
    /\ Issued("delete") \cup Issued("upsert") \subseteq Range(namespaces) \ {req}

\* C33 witness: NsB was created after the attempt had listed the namespaces;
\* the attempt for the enabled source, whose filter NsB matches, has written
\* the replica of NsA and ended in success, and NsB holds nothing.
C33_Witness ==
    /\ pc = "done"
    /\ err = "none"
    /\ req = Home
    /\ Loaded
    /\ ~secret.deleting
    /\ Range(namespaces) = {Home, NsA}
    /\ NsB \in clusterNamespaces
    /\ MatchesFilter(secret, AnnotationReplicateToKey, NsB)
    /\ Issued("upsert") = {NsA}
    /\ NsB \notin DOMAIN store

\* C34: a namespace event that carries a deletion marker, and the creation
\* event of a namespace for which the listing of the objects fails, put no
\* request on the queue through the namespace watch and leave the attempt in
\* flight and its outcome alone: the event is dropped, nothing is retried.
\* (The one request a namespace deletion brings is the delete event of the
\* object the namespace held, under that object's own key.)
C34_DroppedNamespaceEvents ==
    [][\A ns \in AllNamespaces :
          /\ (ns \in clusterNamespaces /\ ns \notin clusterNamespaces')
                => (queue' = queue \cup ({ns} \cap DOMAIN store) /\ pc' = pc /\ err' = err)
          /\ (ns \notin clusterNamespaces /\ ns \in clusterNamespaces' /\ errs' # errs)
                => (queue' = queue /\ pc' = pc /\ err' = err)]_vars

\* C34 witness: NsA was created and its event mapped, the source is enabled
\* and protected, and NsA, holding no replica, has since been deleted: no
\* listing has failed, no attempt runs, and the last event left no request.
C34_Witness ==
    /\ pc = "idle"
    /\ queue = {}
    /\ hist.last = NoKey
    /\ errs = 0
    /\ NsA \in hist.mapped
    /\ NsA \notin clusterNamespaces
    /\ Home \in DOMAIN store
    /\ ~NotEnabled(store[Home])
    /\ ~store[Home].deleting
    /\ FinalizerName \in store[Home].finalizers

\* C35: the return of every attempt that ends in success (the object not
\* found, not enabled, torn down, or converged) carries the zero result and
\* puts no request on the queue: nothing is requeued and no re-check is
\* scheduled.
C35_SuccessReturnsZeroResult ==
    [][(pc = "done" /\ err = "none" /\ pc' = "idle")
          => (RequeueAfter(err) = 0 /\ queue' = queue)]_vars

\* C35 witness: the attempt for the enabled, protected source that has its
\* replicas has returned success; no attempt runs and no request is pending.
C35_Witness ==
    /\ pc = "idle"
    /\ hist.last = Home
    /\ queue = {}
    /\ Home \in DOMAIN store
    /\ ~NotEnabled(store[Home])
    /\ ~store[Home].deleting
    /\ FinalizerName \in store[Home].finalizers
    /\ Replicas # {}

\* The place of a step of Reconcile in the order in which the code reaches
\* them.
Stage(p) ==
    CASE p = "idle" -> 0
      [] p = "addFinalizer" -> 1
      [] p = "list" -> 2
      [] p = "discover" -> 3
      [] p \in {"teardown", "project"} -> 4
      [] p \in {"removeFinalizer", "convergeDelete"} -> 5
      [] p = "convergeUpsert" -> 6
      [] p = "done" -> 7

\* The list the loop at step p ranges over.
LoopList(p) ==
    CASE p = "discover" -> namespaces
      [] p = "teardown" -> existingSecrets
      [] p = "convergeDelete" -> removedSecrets
      [] p = "convergeUpsert" -> addedSecrets
      [] OTHER -> <<>>

\* C36: every attempt terminates after a bounded number of store calls.  A
\* step of an attempt in flight either moves on to a later step of the code or
\* advances the loop it is in by one entry, and never goes back or stays (no
\* retry); each loop ranges over a list no longer than the namespace listing,
\* the attempt issues no more replica deletes and upserts than namespaces were
\* listed and at most one finalizer patch; and, the worker running, an attempt
\* in flight reaches its outcome.
C36_AttemptTerminates ==
    /\ [][(Reconcile /\ pc \notin {"idle", "done"}) =>
              \/ Stage(pc') > Stage(pc)
              \/ pc' = pc /\ pos' = pos + 1 /\ pos <= Len(LoopList(pc))]_vars
    /\ [](/\ pc \in {"discover", "teardown", "convergeDelete", "convergeUpsert"}
                => pos <= Len(LoopList(pc)) + 1
          /\ Len(existingSecrets) <= Len(namespaces)
          /\ Len(removedSecrets) + Len(addedSecrets) <= Len(namespaces)
          /\ Cardinality({n \in 1..Len(writes) : writes[n].op \in {"delete", "upsert"}})
                 <= Len(namespaces)
          /\ Cardinality({n \in 1..Len(writes) :
                             writes[n].op \in {"addFinalizer", "removeFinalizer"}}) <= 1)
    /\ (pc \notin {"idle", "done"}) ~> (pc = "done")

\* C36 witness: an attempt that listed three namespaces has patched the
\* finalizer, written the replicas of NsA and NsB and reached success.
C36_Witness ==
    /\ pc = "done"
    /\ err = "none"
    /\ req = Home
    /\ Len(namespaces) = 3
    /\ Len(writes) = 3
    /\ writes[1] = Write("addFinalizer", Home)
    /\ Issued("upsert") = {NsA, NsB}

====
